---- MODULE Spec2Model ----
(***************************************************************************)
(* Telemetry polling and accumulation engine (get_stats.py).               *)
(*                                                                         *)
(* Strings are modelled as sequences of one-character strings so that      *)
(* str.replace / in / split act on characters as they do in the program.   *)
(* A dataset file is modelled as the sequence of chunks json.dump wrote    *)
(* to it; json.load is modelled by parsing that sequence.                  *)
(***************************************************************************)
EXTENDS Integers, Sequences, FiniteSets, TLC

(***************************************************************************)
(* Bounds of the model                                                     *)
(***************************************************************************)
MaxCycles == 3
MaxRuns == 2
MaxTime == 5
MaxAppends == 2
\* the number of fragments an identifier is put together from
MaxFrags == 3

(***************************************************************************)
(* Program constants                                                       *)
(***************************************************************************)
MIN_PROBE_INTERVAL == 15

psu_output_file == "psu_readings.json"
fan_output_file == "fan_readings.json"
temp_output_file == "temp_readings.json"
Categories == {psu_output_file, fan_output_file, temp_output_file}

(***************************************************************************)
(* String literals of the source                                           *)
(***************************************************************************)
S_power_ == <<"p", "o", "w", "e", "r", "_">>
S_power_PWR_PDB_ == <<"p", "o", "w", "e", "r", "_", "P", "W", "R", "_", "P", "D", "B", "_">>
S_PWR_MB_PSU == <<"P", "W", "R", "_", "M", "B", "_", "P", "S", "U">>
S_power_PWR_PDB_PSU == <<"p", "o", "w", "e", "r", "_", "P", "W", "R", "_", "P", "D", "B", "_", "P", "S", "U">>
S_GPU_TRAY_PSU == <<"G", "P", "U", "_", "T", "R", "A", "Y", "_", "P", "S", "U">>
S_CPU_TRAY_PSU == <<"C", "P", "U", "_", "T", "R", "A", "Y", "_", "P", "S", "U">>
S_TotalPower == <<"T", "o", "t", "a", "l", " ", "P", "o", "w", "e", "r", " ", "i", "n", " ", "W">>
S_Unknown == <<"U", "n", "k", "n", "o", "w", "n">>
S_SPD_ == <<"S", "P", "D", "_">>
S__F == <<"_", "F">>
S__R == <<"_", "R">>
S_Front == <<" ", "F", "r", "o", "n", "t">>
S_Rear == <<" ", "R", "e", "a", "r">>
S_TEMP_PDB_PSU == <<"T", "E", "M", "P", "_", "P", "D", "B", "_", "P", "S", "U">>
S_TEMP_MB_PSU == <<"T", "E", "M", "P", "_", "M", "B", "_", "P", "S", "U">>
S_TEMP_GPU_TRAY_PSU == <<"T", "E", "M", "P", "_", "G", "P", "U", "_", "T", "R", "A", "Y", "_", "P", "S", "U">>
S_TEMP_CPU_TRAY_PSU == <<"T", "E", "M", "P", "_", "C", "P", "U", "_", "T", "R", "A", "Y", "_", "P", "S", "U">>

(***************************************************************************)
(* Python string operations                                                *)
(***************************************************************************)
\* s[i .. i+Len(p)-1] = p
StartsAt(s, p, i) ==
    /\ i >= 1
    /\ i + Len(p) - 1 <= Len(s)
    /\ \A k \in 1..Len(p) : s[i + k - 1] = p[k]

\* p in s
Contains(s, p) == \E i \in 1..(Len(s) + 1) : StartsAt(s, p, i)

\* s.startswith(p)
StartsWith(s, p) == StartsAt(s, p, 1)

\* s.endswith(p)
EndsWith(s, p) == Len(p) <= Len(s) /\ StartsAt(s, p, Len(s) - Len(p) + 1)

RECURSIVE ReplaceFrom(_, _, _, _)
ReplaceFrom(s, old, new, i) ==
    IF i > Len(s) THEN <<>>
    ELSE IF StartsAt(s, old, i)
         THEN new \o ReplaceFrom(s, old, new, i + Len(old))
         ELSE <<s[i]>> \o ReplaceFrom(s, old, new, i + 1)

\* s.replace(old, new) for a non-empty old: every non-overlapping occurrence,
\* scanning from the left
Replace(s, old, new) == ReplaceFrom(s, old, new, 1)

RECURSIVE LastSlash(_, _)
LastSlash(s, i) ==
    IF i = 0 THEN 0
    ELSE IF s[i] = "/" THEN i ELSE LastSlash(s, i - 1)

\* s.split("/")[-1]
LastSegment(s) == SubSeq(s, LastSlash(s, Len(s)) + 1, Len(s))

(***************************************************************************)
(* Readings: a JSON number, the string "N/A" or JSON null                  *)
(***************************************************************************)
Num(n) == [kind |-> "num", val |-> n]
NA == [kind |-> "N/A", val |-> 0]
None == [kind |-> "null", val |-> 0]

\* one reading record {"Name", "Timestamp", "Reading"}
Rec(name, ts, reading) == [Name |-> name, Timestamp |-> ts, Reading |-> reading]

(***************************************************************************)
(* Dataset files: json.dump / json.load                                    *)
(***************************************************************************)
LB == [t |-> "["]
RB == [t |-> "]"]
WS == [t |-> " "]
Val(v) == [t |-> "val", v |-> v]

NoFile == [exists |-> FALSE, readable |-> TRUE, text |-> <<>>]
FileOf(text) == [exists |-> TRUE, readable |-> TRUE, text |-> text]

\* the chunks json.dump(lst, f, indent=4) passes to f.write, in order
json_dump_chunks(lst) ==
    IF lst = <<>> THEN << <<LB, RB>> >>
    ELSE << <<LB>> >> \o [i \in 1..Len(lst) |-> <<Val(lst[i])>>] \o << <<RB>> >>

\* f.read().strip() is empty
IsBlank(text) == \A i \in 1..Len(text) : text[i] = WS

\* json.load(f): a list, another JSON value, or JSONDecodeError
json_load(text) ==
    IF /\ Len(text) >= 2
       /\ text[1] = LB
       /\ text[Len(text)] = RB
       /\ \A i \in 2..(Len(text) - 1) : text[i].t = "val"
    THEN [ok |-> TRUE, isList |-> TRUE,
          list |-> [i \in 1..(Len(text) - 2) |-> text[i + 1].v]]
    ELSE IF Len(text) = 1 /\ text[1].t = "val"
    THEN [ok |-> TRUE, isList |-> FALSE, list |-> <<>>]
    ELSE [ok |-> FALSE, isList |-> FALSE, list |-> <<>>]

\* a variant of ReadExisting that forgets the records already in the file
ReadExisting_dropping(file, data) ==
    IF file.exists /\ ~file.readable THEN [raised |-> TRUE, existing_data |-> <<>>]
    ELSE IF file.exists /\ ~IsBlank(file.text)
            /\ json_load(file.text).ok /\ ~json_load(file.text).isList
    THEN [raised |-> TRUE, existing_data |-> <<>>]
    ELSE [raised |-> FALSE, existing_data |-> data]

\* what lines 139-149 of append_to_json_file compute from the file:
\* raised = an exception the except clause does not catch
\* (PermissionError on open, AttributeError on extend of a non-list)
ReadExisting(file, data) ==
    IF ~file.exists THEN [raised |-> FALSE, existing_data |-> data]
    ELSE IF ~file.readable THEN [raised |-> TRUE, existing_data |-> <<>>]
    ELSE IF IsBlank(file.text) THEN [raised |-> FALSE, existing_data |-> data]
    ELSE LET j == json_load(file.text) IN
         IF ~j.ok THEN [raised |-> FALSE, existing_data |-> data]
         ELSE IF ~j.isList THEN [raised |-> TRUE, existing_data |-> <<>>]
         ELSE [raised |-> FALSE, existing_data |-> j.list \o data]

IsPrefix(s, t) == Len(s) <= Len(t) /\ SubSeq(t, 1, Len(s)) = s


(***************************************************************************)
(* The controller (environment): what its HTTPS API can answer             *)
(***************************************************************************)
S_SensorsDir == <<"/", "S", "/">>
GpuPsu0 == S_SensorsDir \o S_power_PWR_PDB_PSU \o <<"0">>
GpuPsu1 == S_SensorsDir \o S_power_PWR_PDB_PSU \o <<"1">>
CpuPsu0 == S_SensorsDir \o S_power_ \o S_PWR_MB_PSU \o <<"0">>
\* a sensor of the accelerator-tray power board that is not a PSU, and a
\* compute-tray PSU whose id carries no "power_" prefix
GpuAux == S_SensorsDir \o S_power_PWR_PDB_ \o <<"H", "S", "C", "0">>
CpuBare == S_SensorsDir \o S_PWR_MB_PSU \o <<"1">>
OtherSensor == S_SensorsDir \o <<"T", "E", "M", "P", "_", "A", "M", "B">>

\* answers of the sensor directory: ok = FALSE is a network error, an
\* authentication failure or a non-success status (raise_for_status)
DiscoveryFailure == [ok |-> FALSE, Members |-> <<>>]
Directory(members) == [ok |-> TRUE, Members |-> members]
SmallDirectory == <<GpuPsu0, CpuPsu0, OtherSensor>>
FullDirectory == <<GpuPsu0, GpuPsu1, CpuPsu0, OtherSensor>>

\* answers of one PSU sensor: has = the body carries a "Reading" key
PsuFailure == [ok |-> FALSE, has |-> FALSE, Reading |-> None]
PsuNoReading == [ok |-> TRUE, has |-> FALSE, Reading |-> None]
PsuReading(r) == [ok |-> TRUE, has |-> TRUE, Reading |-> r]
PsuResponses ==
    {PsuFailure, PsuNoReading, PsuReading(None), PsuReading(Num(5)), PsuReading(Num(10))}

\* one element of the "Fans" / "Temperatures" array; dict = FALSE is an
\* element that is not a JSON object
Entry(id, reading) ==
    [dict |-> TRUE, hasId |-> TRUE, MemberId |-> id, has |-> TRUE, Reading |-> reading]
BadEntry ==
    [dict |-> FALSE, hasId |-> FALSE, MemberId |-> <<>>, has |-> FALSE, Reading |-> None]

Fan0 == <<"S", "P", "D", "_", "F", "A", "N", "0", "_", "F">>
Temp0 == S_TEMP_PDB_PSU \o <<"0">>

\* answers of the Thermal resource to a listing request
ListingFailure == [ok |-> FALSE, list |-> <<>>]
Listing(l) == [ok |-> TRUE, list |-> l]

\* a controller whose sensors answer steadily (every PSU reads 5 W); the
\* directory and the listings may still fail
SteadyBmc ==
    [directory |-> {DiscoveryFailure, Directory(SmallDirectory)},
     psu |-> {PsuReading(Num(5))},
     fans |-> {ListingFailure, Listing(<<Entry(Fan0, Num(70))>>)},
     temps |-> {ListingFailure, Listing(<<Entry(Temp0, Num(40))>>)}]

\* a controller that gives every kind of answer
AnyBmc ==
    [directory |-> {DiscoveryFailure, Directory(FullDirectory)},
     psu |-> PsuResponses,
     fans |-> {ListingFailure, Listing(<<>>), Listing(<<Entry(Fan0, Num(70)), BadEntry>>)},
     temps |-> {ListingFailure, Listing(<<Entry(Temp0, Num(40))>>), Listing(<<BadEntry>>)}]

(***************************************************************************)
(* Configurations (command line and environment of the process)            *)
(***************************************************************************)
Intervals == {10, MIN_PROBE_INTERVAL}
NoBudget == [given |-> FALSE, secs |-> 0]
Budget(n) == [given |-> TRUE, secs |-> n]
Budgets == {NoBudget, Budget(0), Budget(5), Budget(20)}
TickLen == 5

(***************************************************************************)
(* Identity normalization and the per-sensor queries                       *)
(***************************************************************************)
\* a variant of parse_psu_name that looks for the marker "PSU" alone
parse_psu_name_short(member_id, is_gpu) ==
    IF is_gpu
    THEN Replace(member_id, <<"P", "S", "U">>, S_GPU_TRAY_PSU)
    ELSE Replace(member_id, <<"P", "S", "U">>, S_CPU_TRAY_PSU)

parse_psu_name(member_id, is_gpu) ==
    IF is_gpu
    THEN Replace(member_id, S_power_PWR_PDB_PSU, S_GPU_TRAY_PSU)
    ELSE Replace(member_id, S_PWR_MB_PSU, S_CPU_TRAY_PSU)

\* query_psu after a successful response, read at instant ts
query_psu(psu_url, is_gpu, resp, ts) ==
    Rec(parse_psu_name(LastSegment(psu_url), is_gpu), ts,
        IF resp.has THEN resp.Reading ELSE NA)

parse_fan_name(member_id) ==
    LET m == Replace(member_id, S_SPD_, <<>>) IN
    IF EndsWith(m, S__F) THEN Replace(m, S__F, S_Front)
    ELSE IF EndsWith(m, S__R) THEN Replace(m, S__R, S_Rear)
    ELSE m

query_fan(fan_data, ts) ==
    Rec(parse_fan_name(IF fan_data.hasId THEN fan_data.MemberId ELSE S_Unknown), ts,
        IF fan_data.has THEN fan_data.Reading ELSE NA)

parse_temp_name(member_id) ==
    IF Contains(member_id, S_TEMP_PDB_PSU)
    THEN Replace(member_id, S_TEMP_PDB_PSU, S_TEMP_GPU_TRAY_PSU)
    ELSE IF Contains(member_id, S_TEMP_MB_PSU)
    THEN Replace(member_id, S_TEMP_MB_PSU, S_TEMP_CPU_TRAY_PSU)
    ELSE member_id

query_temp(temp_data, ts) ==
    Rec(parse_temp_name(IF temp_data.hasId THEN temp_data.MemberId ELSE S_Unknown), ts,
        IF temp_data.has THEN temp_data.Reading ELSE NA)

\* the endpoint lists get_psu_endpoints builds from the directory
GpuEndpointsOf(members) == SelectSeq(members, LAMBDA m : Contains(m, S_power_PWR_PDB_))
CpuEndpointsOf(members) == SelectSeq(members, LAMBDA m : Contains(m, S_PWR_MB_PSU))

(***************************************************************************)
(* Futures of one ThreadPoolExecutor                                       *)
(***************************************************************************)
NoResult == Rec(<<>>, 0, NA)
\* executor.submit(fn, arg): fn is "gpu" (query_psu, True), "cpu" (query_psu,
\* False), "fan" (query_fan) or "temp" (query_temp)
Pending(fn, arg) ==
    [fn |-> fn, arg |-> arg, state |-> "pending", raised |-> FALSE, result |-> NoResult]
Submit(fn, args) == [i \in 1..Len(args) |-> Pending(fn, args[i])]
AllConsumed(fs) == \A i \in 1..Len(fs) : fs[i].state = "consumed"
AnyPending(fs) == \E i \in 1..Len(fs) : fs[i].state = "pending"

\* a variant of HandleGpuResult in which a failed query discards the
\* readings collected so far
HandleGpuResult_discarding(f, readings, total) ==
    IF f.raised
    THEN [psu_readings |-> <<>>, total_power |-> total, reported |-> TRUE]
    ELSE [psu_readings |-> Append(readings, f.result),
          total_power |-> IF f.result.Reading.kind = "num"
                          THEN total + f.result.Reading.val ELSE total,
          reported |-> f.result.Reading.kind = "null"]

\* lines 188-193: the control thread handles one completed accelerator-tray
\* future; reported = the except branch printed "Exception occurred ..."
HandleGpuResult(f, readings, total) ==
    IF f.raised
    THEN [psu_readings |-> readings, total_power |-> total, reported |-> TRUE]
    ELSE IF f.result.Reading = NA
    THEN [psu_readings |-> Append(readings, f.result), total_power |-> total,
          reported |-> FALSE]
    ELSE IF f.result.Reading.kind = "num"
    THEN [psu_readings |-> Append(readings, f.result),
          total_power |-> total + f.result.Reading.val, reported |-> FALSE]
    ELSE \* float(None) raises TypeError after the append
         [psu_readings |-> Append(readings, f.result), total_power |-> total,
          reported |-> TRUE]

\* a variant of HandleCpuResult that leaves compute-tray readings out of
\* the total
HandleCpuResult_unsummed(f, readings, total) ==
    IF f.raised
    THEN [psu_readings |-> readings, total_power |-> total, reported |-> TRUE]
    ELSE [psu_readings |-> Append(readings,
                             [f.result EXCEPT !.Name = Replace(@, S_power_, <<>>)]),
          total_power |-> total,
          reported |-> f.result.Reading.kind = "null"]

\* a variant of HandleCpuResult that corrects the name once the reading is
\* summed: a reading that cannot be summed keeps its name
HandleCpuResult_poststrip(f, readings, total) ==
    IF f.raised
    THEN [psu_readings |-> readings, total_power |-> total, reported |-> TRUE]
    ELSE LET data == [f.result EXCEPT !.Name = Replace(@, S_power_, <<>>)] IN
         IF data.Reading = NA
         THEN [psu_readings |-> Append(readings, data), total_power |-> total,
               reported |-> FALSE]
         ELSE IF data.Reading.kind = "num"
         THEN [psu_readings |-> Append(readings, data),
               total_power |-> total + data.Reading.val, reported |-> FALSE]
         ELSE [psu_readings |-> Append(readings, f.result), total_power |-> total,
               reported |-> TRUE]

\* lines 201-208: the same for a compute-tray future, with the name pass
HandleCpuResult(f, readings, total) ==
    IF f.raised
    THEN [psu_readings |-> readings, total_power |-> total, reported |-> TRUE]
    ELSE LET data == [f.result EXCEPT !.Name = Replace(@, S_power_, <<>>)] IN
         IF data.Reading = NA
         THEN [psu_readings |-> Append(readings, data), total_power |-> total,
               reported |-> FALSE]
         ELSE IF data.Reading.kind = "num"
         THEN [psu_readings |-> Append(readings, data),
               total_power |-> total + data.Reading.val, reported |-> FALSE]
         ELSE [psu_readings |-> Append(readings, data), total_power |-> total,
               reported |-> TRUE]

\* lines 229-232 and 245-248: a fan or temperature future
HandleListResult(f, readings) ==
    IF f.raised
    THEN [readings |-> readings, reported |-> TRUE]
    ELSE [readings |-> Append(readings, f.result), reported |-> FALSE]

\* a variant of WithTotal that adds the total only when there is a reading
\* to sum
WithTotal_nonempty(readings, total, ts) ==
    IF readings = <<>> THEN readings
    ELSE Append(readings, Rec(S_TotalPower, ts, Num(total)))

\* lines 211-216: the synthetic total record closes the power batch
WithTotal(readings, total, ts) == Append(readings, Rec(S_TotalPower, ts, Num(total)))


(***************************************************************************)
(* State                                                                   *)
(***************************************************************************)
VARIABLES
    password,            \* BMC_PASSWORD is set and not empty
    probe_every,         \* --probe-every
    collect_duration,    \* --collect-for ([given, secs])
    pc,                  \* position of the control thread
    outcome,             \* how the process ended ("none" while it runs)
    exit_code,           \* exit status (-1 while it runs)
    now,                 \* wall clock, seconds
    end_time,            \* [set, at]
    gpu_psu_endpoints,
    cpu_psu_endpoints,
    futures,             \* the futures of the executor that is open
    psu_readings,
    total_power,
    fan_readings,
    temp_readings,
    files,               \* the dataset files on disk
    ap,                  \* frame of append_to_json_file
    hist,                \* history of the run (observation only)
    bmc,                 \* the controller: the answers it may give
    norm                 \* a normalization rule applied on its own

vars == <<password, probe_every, collect_duration, pc, outcome, exit_code, now,
          end_time, gpu_psu_endpoints, cpu_psu_endpoints, futures, psu_readings,
          total_power, fan_readings, temp_readings, files, ap, hist, bmc,
          norm>>

config == <<password, probe_every, collect_duration, bmc>>
locals == <<end_time, gpu_psu_endpoints, cpu_psu_endpoints, futures, psu_readings,
            total_power, fan_readings, temp_readings>>

NoEnd == [set |-> FALSE, at |-> 0]
NoFrame == [file_path |-> psu_output_file, data |-> <<>>, existing_data |-> <<>>,
            chunks |-> <<>>, ret |-> "none"]
NoNorm == [rule |-> "none", id |-> <<>>, out |-> <<>>, again |-> <<>>, n |-> 0]
NoRound == [queried |-> {}, failed |-> {}, src |-> <<>>]

\* hist: run = number of the process run; total_cycles counts the cycles
\* started over all runs; cycles, requests, file_ops,
\* discoveries, interval_checks count what this run did; round observes the
\* fan-out of the category in progress; persisted[c] is the content left by
\* the last completed append, log[c] the concatenation of all batches whose
\* append completed, torn[c] whether an append of c was ever interrupted after
\* it had opened the file for writing; grew records that the last completed
\* append kept the content persisted before it as a prefix;
\* last_batch[c] and last_round[c] are the batch and the fan-out of the last
\* completed append, completed[c] the number of completed appends; appends counts
\* the calls of append_to_json_file; initial is the disk before the first run;
\* started is the instant at which this run passed discovery; interrupted_at
\* is the place of the control thread when SIGINT arrived ("none" before),
\* in_flight the number of queries that were still running then;
\* failed_listing names the listing request of this run that failed;
\* sleeps counts the interval sleeps of this run, last_start and prev_start
\* are the instants at which its last two cycles started (-1: none);
\* order lists what the current cycle has done so far (its collectors as
\* they start, the files as their append returns, the sleep), prev_order
\* what the cycle before it had done when the current one started;
\* dispatched counts the queries the collector in progress has submitted,
\* returned those of them whose worker has finished
InitHist(fs) ==
    [run |-> 1, cycles |-> 0, total_cycles |-> 0, requests |-> 0, file_ops |-> 0, discoveries |-> 0,
     interval_checks |-> 0, round |-> NoRound,
     persisted |-> [c \in Categories |-> json_load(fs[c].text).list],
     log |-> [c \in Categories |-> <<>>],
     torn |-> [c \in Categories |-> FALSE],
     last_batch |-> [c \in Categories |-> <<>>],
     last_round |-> [c \in Categories |-> NoRound],
     completed |-> [c \in Categories |-> 0],
     failed_discovery |-> FALSE,
     appends |-> 0, grew |-> TRUE, initial |-> fs,
     started |-> 0, interrupted_at |-> "none", in_flight |-> 0,
     failed_listing |-> "none",
     sleeps |-> 0, last_start |-> -1, prev_start |-> -1,
     order |-> <<>>, prev_order |-> <<>>,
     dispatched |-> 0, returned |-> 0]

InitLocals ==
    /\ end_time = NoEnd
    /\ gpu_psu_endpoints = <<>>
    /\ cpu_psu_endpoints = <<>>
    /\ futures = <<>>
    /\ psu_readings = <<>>
    /\ total_power = 0
    /\ fan_readings = <<>>
    /\ temp_readings = <<>>
    /\ ap = NoFrame

Init ==
    /\ password \in BOOLEAN
    /\ probe_every \in Intervals
    /\ collect_duration \in Budgets
    /\ pc = "startup"
    /\ outcome = "none"
    /\ exit_code = -1
    /\ now = 0
    /\ InitLocals
    /\ files = [c \in Categories |-> NoFile]
    /\ hist = InitHist(files)
    /\ bmc = SteadyBmc
    /\ norm = NoNorm

\* the process ends: sys.exit, return from main, or an uncaught exception
Exit(how, code) ==
    /\ pc' = "exited"
    /\ outcome' = how
    /\ exit_code' = code

(***************************************************************************)
(* append_to_json_file                                                     *)
(***************************************************************************)
\* the call: a frame for append_to_json_file(file_path, data) returning to ret
Call(file_path, data, ret) ==
    [file_path |-> file_path, data |-> data, existing_data |-> <<>>,
     chunks |-> <<>>, ret |-> ret]

\* lines 139-149: read the file, fall back to [] and extend with the batch
AppendRead ==
    /\ pc = "ap_read"
    /\ LET r == ReadExisting(files[ap.file_path], ap.data) IN
       IF r.raised
       THEN /\ Exit("Uncaught", 1)
            /\ ap' = ap
       ELSE /\ pc' = "ap_open"
            /\ ap' = [ap EXCEPT !.existing_data = r.existing_data]
            /\ UNCHANGED <<outcome, exit_code>>
    /\ hist' = [hist EXCEPT !.file_ops = @ + 1]
    /\ UNCHANGED <<config, norm, now, locals, files>>

\* line 151: open(file_path, "w") creates or truncates the file
AppendOpen ==
    /\ pc = "ap_open"
    /\ files' = [files EXCEPT ![ap.file_path] = FileOf(<<>>)]
    /\ ap' = [ap EXCEPT !.chunks = json_dump_chunks(ap.existing_data)]
    /\ pc' = "ap_write"
    /\ hist' = [hist EXCEPT !.file_ops = @ + 1]
    /\ UNCHANGED <<config, norm, outcome, exit_code, now, locals>>

\* line 152: json.dump writes the next chunk
AppendWrite ==
    /\ pc = "ap_write"
    /\ ap.chunks # <<>>
    /\ files' = [files EXCEPT ![ap.file_path].text = @ \o Head(ap.chunks)]
    /\ ap' = [ap EXCEPT !.chunks = Tail(@)]
    /\ UNCHANGED <<config, norm, pc, outcome, exit_code, now, locals, hist>>

\* the with block closes the file and append_to_json_file returns
AppendReturn ==
    /\ pc = "ap_write"
    /\ ap.chunks = <<>>
    /\ pc' = ap.ret
    /\ ap' = NoFrame
    /\ LET c == ap.file_path
           after == json_load(files[c].text).list IN
       hist' = [hist EXCEPT !.grew = IsPrefix(hist.persisted[c], after),
                            !.persisted[c] = after,
                            !.log[c] = @ \o ap.data,
                            !.last_batch[c] = ap.data,
                            !.completed[c] = @ + 1,
                            !.last_round[c] = hist.round,
                            !.order = Append(@, c)]
    /\ UNCHANGED <<config, norm, outcome, exit_code, now, locals, files>>


(***************************************************************************)
(* Startup and the scheduler                                               *)
(***************************************************************************)
\* lines 31-35: the secret is read when the module is loaded
Startup ==
    /\ pc = "startup"
    /\ IF ~password
       THEN Exit("Fatal", 1)
       ELSE /\ pc' = "main"
            /\ UNCHANGED <<outcome, exit_code>>
    /\ UNCHANGED <<config, norm, now, locals, files, ap, hist>>

\* a variant of MainEntry that does not enforce the floor
MainEntry_unchecked ==
    /\ pc = "main"
    /\ pc' = "discover"
    /\ hist' = [hist EXCEPT !.interval_checks = @ + 1]
    /\ UNCHANGED <<config, norm, outcome, exit_code, now, locals, files, ap>>

\* lines 161-166: register the SIGINT handler, enforce the interval floor
MainEntry ==
    /\ pc = "main"
    /\ IF probe_every < MIN_PROBE_INTERVAL
       THEN Exit("Fatal", 1)
       ELSE /\ pc' = "discover"
            /\ UNCHANGED <<outcome, exit_code>>
    /\ hist' = [hist EXCEPT !.interval_checks = @ + 1]
    /\ UNCHANGED <<config, norm, now, locals, files, ap>>

\* a variant of Discover that goes on with empty endpoint lists when the
\* directory query fails
Discover_lenient ==
    /\ pc = "discover"
    /\ \E resp \in bmc.directory :
         /\ hist' = [hist EXCEPT !.requests = @ + 1, !.discoveries = @ + 1,
                                 !.failed_discovery = ~resp.ok,
                                 !.started = now]
         /\ gpu_psu_endpoints' = GpuEndpointsOf(resp.Members)
         /\ cpu_psu_endpoints' = CpuEndpointsOf(resp.Members)
    /\ end_time' = IF collect_duration.given /\ collect_duration.secs # 0
                   THEN [set |-> TRUE, at |-> now + collect_duration.secs]
                   ELSE NoEnd
    /\ pc' = "while"
    /\ UNCHANGED <<config, norm, outcome, exit_code, now, futures, psu_readings,
                   total_power, fan_readings, temp_readings, files, ap>>

\* lines 169-172: endpoint discovery, then the end instant
Discover ==
    /\ pc = "discover"
    /\ \E resp \in bmc.directory :
         /\ hist' = [hist EXCEPT !.requests = @ + 1, !.discoveries = @ + 1,
                                 !.failed_discovery = ~resp.ok,
                                 !.started = now]
         /\ IF ~resp.ok
            THEN /\ Exit("Uncaught", 1)
                 /\ UNCHANGED <<gpu_psu_endpoints, cpu_psu_endpoints, end_time>>
            ELSE
              /\ gpu_psu_endpoints' = GpuEndpointsOf(resp.Members)
              /\ cpu_psu_endpoints' = CpuEndpointsOf(resp.Members)
              /\ end_time' = IF collect_duration.given /\ collect_duration.secs # 0
                             THEN [set |-> TRUE, at |-> now + collect_duration.secs]
                             ELSE NoEnd
              /\ pc' = "while"
              /\ UNCHANGED <<outcome, exit_code>>
    /\ UNCHANGED <<config, norm, now, futures, psu_readings, total_power, fan_readings,
                   temp_readings, files, ap>>

\* time passes while the control thread is at the head of the loop
Tick ==
    /\ pc = "while"
    /\ now < MaxTime
    /\ now' = now + TickLen
    /\ UNCHANGED <<config, norm, pc, outcome, exit_code, locals, files, ap, hist>>

\* lines 175-177: the budget is used up
LoopCompleted ==
    /\ pc = "while"
    /\ end_time.set /\ now >= end_time.at
    /\ Exit("Completed", 0)
    /\ UNCHANGED <<config, norm, now, locals, files, ap, hist>>

\* lines 175-184: a cycle starts; the accelerator-tray queries are submitted
LoopCycle ==
    /\ pc = "while"
    /\ ~(end_time.set /\ now >= end_time.at)
    /\ hist.total_cycles < MaxCycles
    /\ psu_readings' = <<>>
    /\ total_power' = 0
    /\ futures' = Submit("gpu", gpu_psu_endpoints)
    /\ pc' = "gpu_pool"
    /\ hist' = [hist EXCEPT !.cycles = @ + 1, !.total_cycles = @ + 1,
                            !.round = NoRound,
                            !.prev_start = hist.last_start, !.last_start = now,
                            !.prev_order = hist.order, !.order = <<"power">>,
                            !.dispatched = Len(gpu_psu_endpoints), !.returned = 0]
    /\ UNCHANGED <<config, norm, outcome, exit_code, now, end_time, gpu_psu_endpoints,
                   cpu_psu_endpoints, fan_readings, temp_readings, files, ap>>

(***************************************************************************)
(* Worker tasks                                                            *)
(***************************************************************************)
Done(f, raised, result) ==
    [fn |-> f.fn, arg |-> f.arg, state |-> "done", raised |-> raised, result |-> result]

\* a worker runs query_psu: one request to the controller
PsuWorker(i) ==
    /\ pc \in {"gpu_pool", "cpu_pool", "shutdown"}
    /\ futures[i].state = "pending"
    /\ futures[i].fn \in {"gpu", "cpu"}
    /\ \E resp \in bmc.psu :
         futures' = [futures EXCEPT ![i] =
            IF resp.ok
            THEN Done(@, FALSE, query_psu(@.arg, @.fn = "gpu", resp, now))
            ELSE Done(@, TRUE, NoResult)]
    /\ hist' = [hist EXCEPT !.requests = @ + 1, !.returned = @ + 1]
    /\ UNCHANGED <<config, norm, pc, outcome, exit_code, now, end_time, gpu_psu_endpoints,
                   cpu_psu_endpoints, psu_readings, total_power, fan_readings,
                   temp_readings, files, ap>>

\* a worker runs query_fan or query_temp on one element of the listing;
\* an element that is not an object has no .get and the call raises
ListWorker(i) ==
    /\ pc \in {"fan_pool", "temp_pool", "shutdown"}
    /\ futures[i].state = "pending"
    /\ futures[i].fn \in {"fan", "temp"}
    /\ futures' = [futures EXCEPT ![i] =
          IF ~@.arg.dict THEN Done(@, TRUE, NoResult)
          ELSE IF @.fn = "fan" THEN Done(@, FALSE, query_fan(@.arg, now))
          ELSE Done(@, FALSE, query_temp(@.arg, now))]
    /\ hist' = [hist EXCEPT !.returned = @ + 1]
    /\ UNCHANGED <<config, norm, pc, outcome, exit_code, now, end_time, gpu_psu_endpoints,
                   cpu_psu_endpoints, psu_readings, total_power, fan_readings,
                   temp_readings, files, ap>>

(***************************************************************************)
(* The collectors (control thread)                                         *)
(***************************************************************************)
Consumed(fs, i) == [fs EXCEPT ![i].state = "consumed"]

\* what the control thread observed of future f: its query returned
\* (queried), it was reported as failed (failed), a record was appended for
\* it (src)
Observe(round, f, reported, appended) ==
    [queried |-> IF f.raised THEN round.queried ELSE round.queried \cup {f.arg},
     failed |-> IF reported THEN round.failed \cup {f.arg} ELSE round.failed,
     src |-> IF appended THEN Append(round.src, f.arg) ELSE round.src]

\* lines 185-193: as_completed hands over a finished accelerator-tray future
GpuResult(i) ==
    /\ pc = "gpu_pool"
    /\ futures[i].state = "done"
    /\ LET r == HandleGpuResult(futures[i], psu_readings, total_power) IN
       /\ psu_readings' = r.psu_readings
       /\ total_power' = r.total_power
       /\ hist' = [hist EXCEPT !.round = Observe(@, futures[i], r.reported,
                                   Len(r.psu_readings) > Len(psu_readings))]
    /\ futures' = Consumed(futures, i)
    /\ UNCHANGED <<config, norm, pc, outcome, exit_code, now, end_time, gpu_psu_endpoints,
                   cpu_psu_endpoints, fan_readings, temp_readings, files, ap>>

\* lines 194-197: the first executor is closed, the compute-tray queries are
\* submitted to a second one
GpuPoolExit ==
    /\ pc = "gpu_pool"
    /\ AllConsumed(futures)
    /\ futures' = Submit("cpu", cpu_psu_endpoints)
    /\ pc' = "cpu_pool"
    /\ hist' = [hist EXCEPT !.dispatched = @ + Len(cpu_psu_endpoints)]
    /\ UNCHANGED <<config, norm, outcome, exit_code, now, end_time, gpu_psu_endpoints,
                   cpu_psu_endpoints, psu_readings, total_power, fan_readings,
                   temp_readings, files, ap>>

\* lines 198-208: as_completed hands over a finished compute-tray future
CpuResult(i) ==
    /\ pc = "cpu_pool"
    /\ futures[i].state = "done"
    /\ LET r == HandleCpuResult(futures[i], psu_readings, total_power) IN
       /\ psu_readings' = r.psu_readings
       /\ total_power' = r.total_power
       /\ hist' = [hist EXCEPT !.round = Observe(@, futures[i], r.reported,
                                   Len(r.psu_readings) > Len(psu_readings))]
    /\ futures' = Consumed(futures, i)
    /\ UNCHANGED <<config, norm, pc, outcome, exit_code, now, end_time, gpu_psu_endpoints,
                   cpu_psu_endpoints, fan_readings, temp_readings, files, ap>>

\* a variant of CpuPoolExit that does not wait for the compute-tray queries:
\* it goes on to the append with whatever was collected
CpuPoolExit_unjoined ==
    /\ pc = "cpu_pool"
    /\ UNCHANGED futures
    /\ psu_readings' = WithTotal(psu_readings, total_power, now)
    /\ ap' = Call(psu_output_file, psu_readings', "fan_list")
    /\ pc' = "ap_read"
    /\ hist' = [hist EXCEPT !.appends = @ + 1]
    /\ UNCHANGED <<config, norm, outcome, exit_code, now, end_time, gpu_psu_endpoints,
                   cpu_psu_endpoints, total_power, fan_readings, temp_readings, files>>

\* lines 210-219: the total record is added and the power batch is appended
CpuPoolExit ==
    /\ pc = "cpu_pool"
    /\ AllConsumed(futures)
    /\ futures' = <<>>
    /\ psu_readings' = WithTotal(psu_readings, total_power, now)
    /\ ap' = Call(psu_output_file, psu_readings', "fan_list")
    /\ pc' = "ap_read"
    /\ hist' = [hist EXCEPT !.appends = @ + 1]
    /\ UNCHANGED <<config, norm, outcome, exit_code, now, end_time, gpu_psu_endpoints,
                   cpu_psu_endpoints, total_power, fan_readings, temp_readings, files>>

\* lines 222-225: the fan listing is fetched and one task per fan submitted;
\* a failure of the listing request is not caught anywhere
FanList ==
    /\ pc = "fan_list"
    /\ \E resp \in bmc.fans :
         /\ IF ~resp.ok
            THEN /\ Exit("Uncaught", 1)
                 /\ UNCHANGED futures
            ELSE /\ futures' = Submit("fan", resp.list)
                 /\ pc' = "fan_pool"
                 /\ UNCHANGED <<outcome, exit_code>>
         /\ hist' = [hist EXCEPT !.requests = @ + 1, !.round = NoRound,
                                 !.failed_listing = IF resp.ok THEN @ ELSE "fan",
                                 !.order = Append(@, "fan"),
                                 !.dispatched = IF resp.ok THEN Len(resp.list) ELSE 0,
                                 !.returned = 0]
    /\ fan_readings' = <<>>
    /\ UNCHANGED <<config, norm, now, end_time, gpu_psu_endpoints, cpu_psu_endpoints,
                   psu_readings, total_power, temp_readings, files, ap>>

\* lines 226-232
FanResult(i) ==
    /\ pc = "fan_pool"
    /\ futures[i].state = "done"
    /\ LET r == HandleListResult(futures[i], fan_readings) IN
       /\ fan_readings' = r.readings
       /\ hist' = [hist EXCEPT !.round = Observe(@, futures[i], r.reported,
                                   Len(r.readings) > Len(fan_readings))]
    /\ futures' = Consumed(futures, i)
    /\ UNCHANGED <<config, norm, pc, outcome, exit_code, now, end_time, gpu_psu_endpoints,
                   cpu_psu_endpoints, psu_readings, total_power, temp_readings,
                   files, ap>>

\* lines 234-235
FanPoolExit ==
    /\ pc = "fan_pool"
    /\ AllConsumed(futures)
    /\ futures' = <<>>
    /\ ap' = Call(fan_output_file, fan_readings, "temp_list")
    /\ pc' = "ap_read"
    /\ hist' = [hist EXCEPT !.appends = @ + 1]
    /\ UNCHANGED <<config, norm, outcome, exit_code, now, end_time, gpu_psu_endpoints,
                   cpu_psu_endpoints, psu_readings, total_power, fan_readings,
                   temp_readings, files>>

\* a variant of TempList that gives up the whole cycle when the listing
\* request fails and takes back what the cycle wrote for the fans
TempList_undoing ==
    /\ pc = "temp_list"
    /\ \E resp \in bmc.temps :
         /\ IF ~resp.ok
            THEN /\ Exit("Uncaught", 1)
                 /\ files' = [files EXCEPT ![fan_output_file] = FileOf(<<>>)]
                 /\ UNCHANGED futures
            ELSE /\ futures' = Submit("temp", resp.list)
                 /\ pc' = "temp_pool"
                 /\ UNCHANGED <<outcome, exit_code, files>>
         /\ hist' = [hist EXCEPT !.requests = @ + 1, !.round = NoRound,
                                 !.failed_listing = IF resp.ok THEN @ ELSE "temp",
                                 !.order = Append(@, "temp"),
                                 !.dispatched = IF resp.ok THEN Len(resp.list) ELSE 0,
                                 !.returned = 0]
    /\ temp_readings' = <<>>
    /\ UNCHANGED <<config, norm, now, end_time, gpu_psu_endpoints, cpu_psu_endpoints,
                   psu_readings, total_power, fan_readings, ap>>

\* lines 238-241
TempList ==
    /\ pc = "temp_list"
    /\ \E resp \in bmc.temps :
         /\ IF ~resp.ok
            THEN /\ Exit("Uncaught", 1)
                 /\ UNCHANGED futures
            ELSE /\ futures' = Submit("temp", resp.list)
                 /\ pc' = "temp_pool"
                 /\ UNCHANGED <<outcome, exit_code>>
         /\ hist' = [hist EXCEPT !.requests = @ + 1, !.round = NoRound,
                                 !.failed_listing = IF resp.ok THEN @ ELSE "temp",
                                 !.order = Append(@, "temp"),
                                 !.dispatched = IF resp.ok THEN Len(resp.list) ELSE 0,
                                 !.returned = 0]
    /\ temp_readings' = <<>>
    /\ UNCHANGED <<config, norm, now, end_time, gpu_psu_endpoints, cpu_psu_endpoints,
                   psu_readings, total_power, fan_readings, files, ap>>

\* lines 242-248
TempResult(i) ==
    /\ pc = "temp_pool"
    /\ futures[i].state = "done"
    /\ LET r == HandleListResult(futures[i], temp_readings) IN
       /\ temp_readings' = r.readings
       /\ hist' = [hist EXCEPT !.round = Observe(@, futures[i], r.reported,
                                   Len(r.readings) > Len(temp_readings))]
    /\ futures' = Consumed(futures, i)
    /\ UNCHANGED <<config, norm, pc, outcome, exit_code, now, end_time, gpu_psu_endpoints,
                   cpu_psu_endpoints, psu_readings, total_power, fan_readings,
                   files, ap>>

\* a variant of TempPoolExit that goes back to the head of the loop once the
\* temperature batch is appended
TempPoolExit_unslept ==
    /\ pc = "temp_pool"
    /\ AllConsumed(futures)
    /\ futures' = <<>>
    /\ ap' = Call(temp_output_file, temp_readings, "while")
    /\ pc' = "ap_read"
    /\ hist' = [hist EXCEPT !.appends = @ + 1]
    /\ UNCHANGED <<config, norm, outcome, exit_code, now, end_time, gpu_psu_endpoints,
                   cpu_psu_endpoints, psu_readings, total_power, fan_readings,
                   temp_readings, files>>

\* lines 250-251
TempPoolExit ==
    /\ pc = "temp_pool"
    /\ AllConsumed(futures)
    /\ futures' = <<>>
    /\ ap' = Call(temp_output_file, temp_readings, "sleep")
    /\ pc' = "ap_read"
    /\ hist' = [hist EXCEPT !.appends = @ + 1]
    /\ UNCHANGED <<config, norm, outcome, exit_code, now, end_time, gpu_psu_endpoints,
                   cpu_psu_endpoints, psu_readings, total_power, fan_readings,
                   temp_readings, files>>

\* a variant of Sleep that takes the interval for milliseconds
Sleep_millis ==
    /\ pc = "sleep"
    /\ now' = now + (probe_every \div 1000)
    /\ pc' = "while"
    /\ hist' = [hist EXCEPT !.sleeps = @ + 1, !.order = Append(@, "sleep")]
    /\ UNCHANGED <<config, norm, outcome, exit_code, locals, files, ap>>

\* line 254: time.sleep(probe_every)
Sleep ==
    /\ pc = "sleep"
    /\ now' = now + probe_every
    /\ pc' = "while"
    /\ hist' = [hist EXCEPT !.sleeps = @ + 1, !.order = Append(@, "sleep")]
    /\ UNCHANGED <<config, norm, outcome, exit_code, locals, files, ap>>

(***************************************************************************)
(* SIGINT and the next run                                                 *)
(***************************************************************************)
HandlerInstalled == pc \notin {"startup", "main", "exited", "idle", "shutdown"}

InFlight(fs) == Cardinality({i \in 1..Len(fs) : fs[i].state = "pending"})

\* a variant of Interrupt whose handler only takes note of the signal and
\* lets the control thread go on
Interrupt_deferred ==
    /\ HandlerInstalled
    /\ hist.interrupted_at = "none"
    /\ hist' = [hist EXCEPT !.interrupted_at = pc, !.in_flight = InFlight(futures)]
    /\ UNCHANGED <<config, norm, pc, outcome, exit_code, now, locals, files, ap>>

\* lines 154-157: the handler raises SystemExit in the control thread; an open
\* executor is shut down waiting for its running tasks, an open file is closed
\* as it is
Interrupt ==
    /\ HandlerInstalled
    /\ IF pc \in {"gpu_pool", "cpu_pool", "fan_pool", "temp_pool"}
       THEN /\ pc' = "shutdown"
            /\ UNCHANGED <<outcome, exit_code>>
       ELSE Exit("Interrupted", 0)
    /\ hist' = [hist EXCEPT !.torn = IF pc = "ap_write"
                                     THEN [@ EXCEPT ![ap.file_path] = TRUE]
                                     ELSE @,
                            !.interrupted_at = pc,
                            !.in_flight = InFlight(futures)]
    /\ UNCHANGED <<config, norm, now, locals, files, ap>>

\* a variant of ShutdownExit that does not join the executor: queries that
\* have not finished are dropped
ShutdownExit_cancelling ==
    /\ pc = "shutdown"
    /\ Exit("Interrupted", 0)
    /\ UNCHANGED <<config, norm, now, locals, files, ap, hist>>

\* the executor has joined its tasks; the process exits with code 0
ShutdownExit ==
    /\ pc = "shutdown"
    /\ ~AnyPending(futures)
    /\ Exit("Interrupted", 0)
    /\ UNCHANGED <<config, norm, now, locals, files, ap, hist>>

\* the operator starts the collector again with the same command line;
\* the dataset files are what the previous run left
Restart ==
    /\ pc = "exited"
    /\ hist.run < MaxRuns
    /\ pc' = "startup"
    /\ outcome' = "none"
    /\ exit_code' = -1
    /\ end_time' = NoEnd
    /\ gpu_psu_endpoints' = <<>>
    /\ cpu_psu_endpoints' = <<>>
    /\ futures' = <<>>
    /\ psu_readings' = <<>>
    /\ total_power' = 0
    /\ fan_readings' = <<>>
    /\ temp_readings' = <<>>
    /\ ap' = NoFrame
    /\ hist' = [hist EXCEPT !.run = @ + 1, !.cycles = 0, !.requests = 0,
                            !.file_ops = 0, !.discoveries = 0,
                            !.interval_checks = 0, !.round = NoRound,
                            !.failed_discovery = FALSE, !.started = 0,
                            !.interrupted_at = "none", !.in_flight = 0,
                            !.failed_listing = "none",
                            !.sleeps = 0, !.last_start = -1, !.prev_start = -1,
                            !.order = <<>>, !.prev_order = <<>>,
                            !.dispatched = 0, !.returned = 0]
    /\ UNCHANGED <<config, norm, now, files>>

Next ==
    \/ Startup
    \/ MainEntry
    \/ Discover
    \/ Tick
    \/ LoopCompleted
    \/ LoopCycle
    \/ \E i \in 1..Len(futures) : PsuWorker(i)
    \/ \E i \in 1..Len(futures) : ListWorker(i)
    \/ \E i \in 1..Len(futures) : GpuResult(i)
    \/ GpuPoolExit
    \/ \E i \in 1..Len(futures) : CpuResult(i)
    \/ CpuPoolExit
    \/ FanList
    \/ \E i \in 1..Len(futures) : FanResult(i)
    \/ FanPoolExit
    \/ TempList
    \/ \E i \in 1..Len(futures) : TempResult(i)
    \/ TempPoolExit
    \/ AppendRead
    \/ AppendOpen
    \/ AppendWrite
    \/ AppendReturn
    \/ Sleep
    \/ Interrupt
    \/ ShutdownExit
    \/ Restart

Spec == Init /\ [][Next]_vars


(***************************************************************************)
(* One cycle against a controller that gives every kind of answer: the     *)
(* process has passed discovery, with a budget that allows one cycle       *)
(***************************************************************************)
InitRound ==
    /\ password = TRUE
    /\ probe_every = MIN_PROBE_INTERVAL
    /\ collect_duration = Budget(5)
    /\ bmc = AnyBmc
    /\ norm = NoNorm
    /\ pc = "while"
    /\ outcome = "none"
    /\ exit_code = -1
    /\ now = 0
    /\ end_time = [set |-> TRUE, at |-> now + collect_duration.secs]
    /\ gpu_psu_endpoints = GpuEndpointsOf(FullDirectory)
    /\ cpu_psu_endpoints = CpuEndpointsOf(FullDirectory)
    /\ futures = <<>>
    /\ psu_readings = <<>>
    /\ total_power = 0
    /\ fan_readings = <<>>
    /\ temp_readings = <<>>
    /\ ap = NoFrame
    /\ files = [c \in Categories |-> NoFile]
    /\ hist = [InitHist(files) EXCEPT !.requests = 1, !.discoveries = 1,
                                      !.interval_checks = 1]

NextRound ==
    \/ LoopCompleted
    \/ LoopCycle
    \/ \E i \in 1..Len(futures) : PsuWorker(i)
    \/ \E i \in 1..Len(futures) : ListWorker(i)
    \/ \E i \in 1..Len(futures) : GpuResult(i)
    \/ GpuPoolExit
    \/ \E i \in 1..Len(futures) : CpuResult(i)
    \/ CpuPoolExit
    \/ FanList
    \/ \E i \in 1..Len(futures) : FanResult(i)
    \/ FanPoolExit
    \/ TempList
    \/ \E i \in 1..Len(futures) : TempResult(i)
    \/ TempPoolExit
    \/ AppendRead
    \/ AppendOpen
    \/ AppendWrite
    \/ AppendReturn
    \/ Sleep

SpecRound == InitRound /\ [][NextRound]_vars

(***************************************************************************)
(* append_to_json_file on its own: called on files in any state            *)
(***************************************************************************)
RecA == Rec(<<"A">>, 1, Num(1))
RecB == Rec(<<"B">>, 2, Num(2))
RecC == Rec(<<"C">>, 3, NA)

\* the states a dataset file can be found in: missing, empty, blank,
\* unreadable, cut short, a JSON object, arrays
FileStates ==
    { NoFile,
      FileOf(<<>>),
      FileOf(<<WS>>),
      [exists |-> TRUE, readable |-> FALSE, text |-> <<LB, Val(RecA), RB>>],
      FileOf(<<LB, Val(RecA)>>),
      FileOf(<<Val(RecA)>>),
      FileOf(<<LB, RB>>),
      FileOf(<<LB, Val(RecA), RB>>),
      FileOf(<<LB, Val(Num(7)), RB>>) }

Batches == { <<>>, <<RecB>>, <<RecC, RecB>> }

InitAppend ==
    /\ password = TRUE
    /\ probe_every = MIN_PROBE_INTERVAL
    /\ collect_duration = NoBudget
    /\ bmc = SteadyBmc
    /\ norm = NoNorm
    /\ pc = "idle"
    /\ outcome = "none"
    /\ exit_code = -1
    /\ now = 0
    /\ InitLocals
    /\ \E f \in FileStates : files = [c \in Categories |-> f]
    /\ hist = InitHist(files)

\* append_to_json_file(file_path, data) is called
CallAppend ==
    /\ pc = "idle"
    /\ hist.appends < MaxAppends
    /\ \E file_path \in Categories, data \in Batches :
         ap' = Call(file_path, data, "idle")
    /\ pc' = "ap_read"
    /\ hist' = [hist EXCEPT !.appends = @ + 1]
    /\ UNCHANGED <<config, norm, outcome, exit_code, now, locals, files>>

NextAppend ==
    \/ CallAppend
    \/ AppendRead
    \/ AppendOpen
    \/ AppendWrite
    \/ AppendReturn

SpecAppend == InitAppend /\ [][NextAppend]_vars

(***************************************************************************)
(* The power collector on its own: one power round, from the start of the  *)
(* cycle to the return of its append, over directories of every shape and  *)
(* a controller that gives every kind of answer                            *)
(***************************************************************************)
PowerDirectories ==
    { <<>>,
      <<OtherSensor>>,
      <<GpuPsu0, CpuPsu0>>,
      <<GpuAux, CpuBare, OtherSensor>>,
      <<GpuPsu0, GpuAux, CpuPsu0>> }

InitPower ==
    /\ password = TRUE
    /\ probe_every = MIN_PROBE_INTERVAL
    /\ collect_duration = NoBudget
    /\ bmc = AnyBmc
    /\ norm = NoNorm
    /\ pc = "while"
    /\ outcome = "none"
    /\ exit_code = -1
    /\ now = 0
    /\ end_time = NoEnd
    /\ \E members \in PowerDirectories :
          /\ gpu_psu_endpoints = GpuEndpointsOf(members)
          /\ cpu_psu_endpoints = CpuEndpointsOf(members)
    /\ futures = <<>>
    /\ psu_readings = <<>>
    /\ total_power = 0
    /\ fan_readings = <<>>
    /\ temp_readings = <<>>
    /\ ap = NoFrame
    /\ files = [c \in Categories |-> NoFile]
    /\ hist = [InitHist(files) EXCEPT !.requests = 1, !.discoveries = 1,
                                      !.interval_checks = 1]

NextPower ==
    \/ LoopCycle
    \/ \E i \in 1..Len(futures) : PsuWorker(i)
    \/ \E i \in 1..Len(futures) : GpuResult(i)
    \/ GpuPoolExit
    \/ \E i \in 1..Len(futures) : CpuResult(i)
    \/ CpuPoolExit
    \/ AppendRead
    \/ AppendOpen
    \/ AppendWrite
    \/ AppendReturn

SpecPower == InitPower /\ [][NextPower]_vars

(***************************************************************************)
(* The identity-normalization rules on their own: applied to identifiers   *)
(* put together from the markers a rule looks for, then applied again to   *)
(* their own result                                                        *)
(***************************************************************************)
\* lines 59-64 and 203: the name a compute-tray record ends up with
cpu_psu_name(member_id) == Replace(parse_psu_name(member_id, FALSE), S_power_, <<>>)

Rules == {"gpu", "cpu", "cpu_strip", "fan", "temp"}

Rule(r, x) ==
    CASE r = "gpu" -> parse_psu_name(x, TRUE)
      [] r = "cpu" -> parse_psu_name(x, FALSE)
      [] r = "cpu_strip" -> cpu_psu_name(x)
      [] r = "fan" -> parse_fan_name(x)
      [] r = "temp" -> parse_temp_name(x)

S_PWR_PDB_PSU == <<"P", "W", "R", "_", "P", "D", "B", "_", "P", "S", "U">>
PsuFragments ==
    {S_power_, <<"p">>, <<"o", "w", "e", "r", "_">>, S_PWR_PDB_PSU, S_PWR_MB_PSU, <<"0">>}
FanFragments ==
    {S_SPD_, <<"S">>, <<"P", "D", "_">>, S__F, S__R, <<"F", "A", "N", "0">>}
TempFragments ==
    {S_TEMP_PDB_PSU, S_TEMP_MB_PSU, <<"T", "E", "M", "P", "_">>,
     <<"P", "D", "B", "_", "P", "S", "U">>, <<"C", "P", "U", "0">>, <<"0">>}

FragmentsOf(r) ==
    IF r = "fan" THEN FanFragments
    ELSE IF r = "temp" THEN TempFragments
    ELSE PsuFragments

\* the identifiers made of up to n fragments of F
RECURSIVE Concats(_, _)
Concats(F, n) ==
    IF n = 0 THEN {<<>>}
    ELSE {<<>>} \cup {f \o t : f \in F, t \in Concats(F, n - 1)}

InitNames ==
    /\ password = TRUE
    /\ probe_every = MIN_PROBE_INTERVAL
    /\ collect_duration = NoBudget
    /\ bmc = SteadyBmc
    /\ pc = "idle"
    /\ outcome = "none"
    /\ exit_code = -1
    /\ now = 0
    /\ InitLocals
    /\ files = [c \in Categories |-> NoFile]
    /\ hist = InitHist(files)
    /\ \E r \in Rules : \E x \in Concats(FragmentsOf(r), MaxFrags) :
          norm = [rule |-> r, id |-> x, out |-> <<>>, again |-> <<>>, n |-> 0]

\* the rule is applied to the identifier
Normalize ==
    /\ norm.n = 0
    /\ norm' = [norm EXCEPT !.out = Rule(norm.rule, norm.id), !.n = 1]
    /\ UNCHANGED <<config, pc, outcome, exit_code, now, locals, files, ap, hist>>

\* the rule is applied to a name it produced
NormalizeAgain ==
    /\ norm.n = 1
    /\ norm' = [norm EXCEPT !.again = Rule(norm.rule, norm.out), !.n = 2]
    /\ UNCHANGED <<config, pc, outcome, exit_code, now, locals, files, ap, hist>>

NextNames ==
    \/ Normalize
    \/ NormalizeAgain

SpecNames == InitNames /\ [][NextNames]_vars


(***************************************************************************)
(* Properties                                                              *)
(***************************************************************************)
AtRest == pc \notin {"ap_read", "ap_open", "ap_write"}
WellFormedArray(file) == json_load(file.text).ok /\ json_load(file.text).isList
Content(c) == json_load(files[c].text).list

\* C1: whenever no append is executing, also after an interrupt, every dataset
\* file that exists holds one complete, parseable JSON array
C1_ParseableAtRest ==
    AtRest => \A c \in Categories : files[c].exists => WellFormedArray(files[c])

\* C2: every completed append leaves the record sequence that the previous
\* completed append persisted as a prefix of the new content
C2_OnlyGrows == hist.grew

InitiallyEmpty(c) == ~hist.initial[c].exists \/ IsBlank(hist.initial[c].text)
InitiallyArray(c) ==
    /\ hist.initial[c].exists
    /\ hist.initial[c].readable
    /\ ~IsBlank(hist.initial[c].text)
    /\ WellFormedArray(hist.initial[c])

\* C3: after N completed appends to a dataset that was empty or absent the
\* file holds exactly the concatenation of the N batches in call order; on a
\* file that held an array the old records stay in place, followed by the
\* batches
C3_Concatenation ==
    \A c \in Categories :
        (pc = "idle" /\ hist.completed[c] > 0) =>
            /\ InitiallyEmpty(c) =>
                 /\ WellFormedArray(files[c])
                 /\ Content(c) = hist.log[c]
                 /\ Len(Content(c)) = Len(hist.log[c])
            /\ InitiallyArray(c) =>
                 /\ WellFormedArray(files[c])
                 /\ Content(c) = json_load(hist.initial[c].text).list \o hist.log[c]

C3_Witness ==
    /\ pc = "idle"
    /\ hist.completed[psu_output_file] = 2
    /\ hist.initial[psu_output_file] = FileOf(<<LB, Val(RecA), RB>>)
    /\ hist.log[psu_output_file] = <<RecB, RecC, RecB>>
    /\ Content(psu_output_file) = <<RecA, RecB, RecC, RecB>>

IsRecordArray(file) ==
    /\ file.exists /\ file.readable /\ WellFormedArray(file)
    /\ \A i \in 1..Len(json_load(file.text).list) :
          DOMAIN json_load(file.text).list[i] = {"Name", "Timestamp", "Reading"}

\* C4: whatever the state of the file (missing, empty, unreadable, malformed,
\* JSON that is not an array of records), the append does not raise and
\* leaves exactly the new batch

C4_AnyFileStateTolerated ==
    /\ outcome # "Uncaught"
    /\ \A c \in Categories :
         (pc = "idle" /\ hist.completed[c] = 1 /\ ~IsRecordArray(hist.initial[c]))
            => Content(c) = hist.last_batch[c]


CountOf(seq, e) == Cardinality({i \in 1..Len(seq) : seq[i] = e})
Range(seq) == {seq[i] : i \in 1..Len(seq)}
IsSuffix(s, t) == Len(s) <= Len(t) /\ SubSeq(t, Len(t) - Len(s) + 1, Len(t)) = s
ExtraRecords(c) == IF c = psu_output_file THEN 1 ELSE 0

\* C5: in a round where some per-sensor queries fail and others succeed the
\* batch holds one reading for every sensor whose query succeeded, the batch
\* is appended and the cycle goes on to the next category; only a failed
\* listing ends the process
C5_SiblingsKept ==
    /\ \A c \in Categories :
         hist.completed[c] > 0 =>
            LET b == hist.last_batch[c]
                rd == hist.last_round[c] IN
            /\ Len(b) = Len(rd.src) + ExtraRecords(c)
            /\ \A e \in rd.queried : CountOf(rd.src, e) = 1
            /\ (AtRest \/ ap.file_path # c) =>
                  WellFormedArray(files[c]) /\ IsSuffix(b, Content(c))
    /\ pc \in {"fan_list", "fan_pool"} =>
          hist.completed[psu_output_file] = hist.total_cycles
    /\ pc \in {"temp_list", "temp_pool"} =>
          hist.completed[fan_output_file] = hist.total_cycles
    /\ pc = "sleep" => hist.completed[temp_output_file] = hist.total_cycles
    /\ outcome = "Uncaught" => hist.round = NoRound

C5_Witness ==
    /\ pc = "fan_list"
    /\ hist.completed[psu_output_file] = 1
    /\ Cardinality(hist.last_round[psu_output_file].failed) = 1
    /\ Cardinality(hist.last_round[psu_output_file].queried) = 2
    /\ Len(Content(psu_output_file)) = 3

\* C6: a sensor reported as failed in a round has no record in the batch
\* appended for that round; the batch holds exactly the readings of the
\* sensors that were not reported as failed
C6_ReportedFailedExcluded ==
    \A c \in Categories :
        hist.completed[c] > 0 =>
            LET rd == hist.last_round[c] IN
            /\ \A e \in rd.failed : CountOf(rd.src, e) = 0
            /\ Range(rd.src) = (rd.queried \cup rd.failed) \ rd.failed

RECURSIVE SumReadings(_)
SumReadings(b) ==
    IF b = <<>> THEN 0
    ELSE (IF Head(b).Name # S_TotalPower /\ Head(b).Reading.kind = "num"
          THEN Head(b).Reading.val ELSE 0) + SumReadings(Tail(b))

\* C7: in every power batch the reading of the "Total Power in W" record is
\* the sum of the numeric readings of the PSU records of the same batch
\* ("N/A" contributes zero)
C7_TotalIsSum ==
    /\ (pc = "ap_read" /\ ap.file_path = psu_output_file) =>
          \E i \in 1..Len(ap.data) :
              /\ ap.data[i].Name = S_TotalPower
              /\ ap.data[i].Reading = Num(SumReadings(ap.data))
    /\ hist.completed[psu_output_file] > 0 =>
          LET b == hist.last_batch[psu_output_file] IN
          /\ \E i \in 1..Len(b) : b[i].Name = S_TotalPower
          /\ \A i \in 1..Len(b) :
                b[i].Name = S_TotalPower => b[i].Reading = Num(SumReadings(b))

C7_Witness ==
    /\ hist.completed[psu_output_file] = 1
    /\ AtRest
    /\ Len(Content(psu_output_file)) = 4
    /\ {Content(psu_output_file)[i].Reading : i \in 1..3} = {Num(5), NA, Num(10)}
    /\ Content(psu_output_file)[4] = Rec(S_TotalPower, now, Num(15))

\* C8: with an interval below the floor the process exits nonzero before any
\* request, cycle or file access; the floor is checked once, before the loop
C8_FloorBeforeAnything ==
    /\ hist.interval_checks <= 1
    /\ (hist.requests > 0 \/ hist.cycles > 0 \/ hist.file_ops > 0) =>
          hist.interval_checks = 1
    /\ probe_every < MIN_PROBE_INTERVAL =>
          /\ pc \in {"startup", "main", "exited"}
          /\ hist.requests = 0 /\ hist.discoveries = 0
          /\ hist.cycles = 0
          /\ hist.file_ops = 0
          /\ files = hist.initial
          /\ pc = "exited" => exit_code = 1 /\ outcome = "Fatal"

C8_Witness ==
    /\ password
    /\ probe_every = 10
    /\ hist.interval_checks = 1
    /\ pc = "exited"
    /\ exit_code = 1

\* C9: a missing secret or a failed discovery ends the process nonzero before
\* any cycle: discovery is attempted at most once, no collector query is
\* issued and no dataset file is touched
C9_FatalStartup ==
    /\ hist.discoveries <= 1
    /\ ~password =>
          /\ pc \in {"startup", "exited"}
          /\ hist.requests = 0 /\ hist.discoveries = 0
          /\ hist.cycles = 0 /\ hist.file_ops = 0
          /\ files = hist.initial
          /\ pc = "exited" => exit_code = 1
    /\ hist.failed_discovery =>
          /\ pc = "exited" /\ exit_code = 1
          /\ hist.requests = 1 /\ hist.discoveries = 1
          /\ hist.cycles = 0 /\ hist.file_ops = 0
          /\ futures = <<>>

C9_Witness ==
    /\ hist.failed_discovery
    /\ pc = "exited"
    /\ exit_code = 1
    /\ hist.requests = 1

\* C10: with a budget smaller than the poll interval the scheduler never
\* starts a second cycle
C10_AtMostOneCycle ==
    (collect_duration.given /\ collect_duration.secs < probe_every) =>
        hist.cycles <= 1


Polling == pc \notin {"startup", "main", "discover", "exited", "idle"}

\* C11: whenever a budget was given on the command line, whatever its integer
\* value, the scheduler in its polling loop holds an end instant equal to the
\* instant it started polling plus the budget (so that the run is bounded);
\* the end instant is absent only when no budget was given
C11_BudgetSetsEndInstant ==
    Polling =>
       /\ collect_duration.given =>
             (end_time.set /\ end_time.at = hist.started + collect_duration.secs)
       /\ ~collect_duration.given => ~end_time.set


\* C12: once SIGINT has arrived after the scheduler started, the run goes
\* straight to Interrupted: the control thread is shutting down or has exited,
\* the exit code is 0, and from then on no dataset file changes, no batch is
\* appended, no sleep passes and no cycle or fan-out is started; the readings
\* of the round that was in flight are never appended
C12_InterruptStopsRun ==
    [][(hist'.interrupted_at # "none" /\ hist'.run = hist.run) =>
          /\ pc' \in {"shutdown", "exited"}
          /\ pc' = "exited" => (outcome' = "Interrupted" /\ exit_code' = 0)
          /\ files' = files
          /\ now' = now
          /\ hist'.cycles = hist.cycles
          /\ hist'.appends = hist.appends
          /\ hist'.completed = hist.completed
          /\ hist'.file_ops = hist.file_ops
          /\ Len(futures') = Len(futures)
          /\ <<psu_readings', fan_readings', temp_readings'>> =
                <<psu_readings, fan_readings, temp_readings>>]_vars

\* interrupted while the compute-tray fan-out was in flight with readings
\* already collected: the process has exited and the power batch of that
\* round was never appended
C12_Witness ==
    /\ pc = "exited" /\ outcome = "Interrupted" /\ exit_code = 0
    /\ hist.interrupted_at = "cpu_pool"
    /\ psu_readings # <<>>
    /\ hist.cycles = 1
    /\ hist.completed[psu_output_file] = 0


\* C13: a failure inside a collector, be it a query of one sensor or the
\* listing request of the fans or of the temperatures, never ends the
\* scheduler: the process does not end with an uncaught exception after
\* discovery has succeeded
C13_CollectorFailureKeepsLoop ==
    (pc = "exited" /\ outcome = "Uncaught") =>
        (hist.failed_discovery /\ hist.failed_listing = "none")


AppendedBefore(listing) ==
    IF listing = "fan" THEN {psu_output_file}
    ELSE {psu_output_file, fan_output_file}

\* C14: the step in which the fan or the temperature listing fails changes no
\* dataset file and touches none; the files of the categories collected
\* earlier in that cycle hold a complete array that ends with the batch the
\* cycle appended
C14_ListingFailureLeavesFiles ==
    [][(hist'.failed_listing # "none" /\ hist.failed_listing = "none") =>
          /\ files' = files
          /\ hist'.file_ops = hist.file_ops
          /\ \A c \in AppendedBefore(hist'.failed_listing) :
                /\ hist.completed[c] >= 1
                /\ files'[c].exists
                /\ WellFormedArray(files'[c])
                /\ IsSuffix(hist.last_batch[c], json_load(files'[c].text).list)
                /\ hist.last_round[c].src # <<>> => hist.last_batch[c] # <<>>]_vars

\* the temperature listing failed after a power batch and a non-empty fan
\* batch had been appended; both are on disk, the temperature file was never
\* created
C14_Witness ==
    /\ pc = "exited" /\ outcome = "Uncaught"
    /\ hist.failed_listing = "temp"
    /\ hist.completed[psu_output_file] = 1
    /\ hist.completed[fan_output_file] = 1
    /\ Content(fan_output_file) = hist.last_batch[fan_output_file]
    /\ Len(Content(fan_output_file)) >= 1
    /\ Len(Content(psu_output_file)) >= 2
    /\ ~files[temp_output_file].exists


HasMarker(r, name) ==
    CASE r = "cpu_strip" -> Contains(name, S_power_) \/ Contains(name, S_PWR_MB_PSU)
      [] r = "fan" -> Contains(name, S_SPD_)
      [] OTHER -> FALSE

\* C15 as stated: every normalization rule, applied to any identifier and
\* then to its own result, gives the same name both times
C15_IdempotentEverywhere ==
    norm.n = 2 => norm.again = norm.out

\* C15: applying a rule to its own result changes nothing, for the
\* replacement of parse_psu_name in both device classes on every identifier,
\* for parse_temp_name on every identifier that does not hold both of its
\* markers, and for parse_fan_name and the compute-tray name after the
\* stripping of "power_" whenever the result holds no marker of the rule
C15_IdempotentOnCanonical ==
    norm.n = 2 =>
       /\ norm.rule \in {"gpu", "cpu"} => norm.again = norm.out
       /\ (norm.rule = "temp" /\ ~(Contains(norm.id, S_TEMP_PDB_PSU)
                                    /\ Contains(norm.id, S_TEMP_MB_PSU)))
             => norm.again = norm.out
       /\ (norm.rule \in {"cpu_strip", "fan"} /\ ~HasMarker(norm.rule, norm.out))
             => norm.again = norm.out

\* the fan identifier of the controller was normalized twice, the second
\* time without effect
C15_Witness ==
    /\ norm.n = 2
    /\ norm.rule = "fan"
    /\ norm.id = S_SPD_ \o <<"F", "A", "N", "0">> \o S__F
    /\ norm.out = <<"F", "A", "N", "0">> \o S_Front
    /\ norm.again = norm.out


InCycle == pc \in {"gpu_pool", "cpu_pool", "ap_read", "ap_open", "ap_write",
                   "fan_list", "fan_pool", "temp_list", "temp_pool", "sleep"}

SleptOncePerCycle ==
    /\ Polling => probe_every >= MIN_PROBE_INTERVAL
    /\ pc = "while" => hist.sleeps = hist.cycles
    /\ InCycle => hist.sleeps = hist.cycles - 1
    /\ hist.cycles >= 2 => hist.last_start - hist.prev_start >= probe_every

\* C16: the interval is at least 15 s once the scheduler polls; the scheduler
\* has slept once for every completed cycle, each sleep comes right after
\* the temperature append and lasts the interval, and the starts of two
\* consecutive cycles of a run are at least one interval apart
C16_OneSleepPerCycle ==
    [][/\ SleptOncePerCycle'
       /\ hist'.sleeps = hist.sleeps + 1 =>
            /\ pc = "sleep" /\ pc' = "while"
            /\ hist.order # <<>>
            /\ hist.order[Len(hist.order)] = temp_output_file
            /\ now' = now + probe_every]_vars

\* the second cycle of a run has started exactly one interval after the first
C16_Witness ==
    /\ pc = "gpu_pool"
    /\ hist.cycles = 2
    /\ hist.sleeps = 1
    /\ hist.last_start - hist.prev_start = probe_every


CycleOrder == <<"power", psu_output_file, "fan", fan_output_file,
                "temp", temp_output_file, "sleep">>

CollectorOf(fn) == IF fn \in {"gpu", "cpu"} THEN "power" ELSE fn

\* C17: within a cycle the collectors run in the order power, fan,
\* temperature, each one starting only after the batch of the one before it
\* was appended; a cycle starts only after the cycle before it has appended
\* its temperature batch and slept; the queries in flight all belong to the
\* collector that started last
C17_FixedOrder ==
    /\ IsPrefix(hist.order, CycleOrder)
    /\ hist.prev_order \in {<<>>, CycleOrder}
    /\ hist.cycles >= 2 => hist.prev_order = CycleOrder
    /\ futures # <<>> =>
          /\ hist.order # <<>>
          /\ \A i \in 1..Len(futures) :
                CollectorOf(futures[i].fn) = hist.order[Len(hist.order)]

\* the second cycle has dispatched its power queries after a first cycle
\* that went through all three collectors and the sleep
C17_Witness ==
    /\ pc = "gpu_pool"
    /\ hist.cycles = 2
    /\ futures # <<>>
    /\ hist.order = <<"power">>
    /\ hist.prev_order = CycleOrder
    /\ \A c \in Categories : hist.completed[c] >= 1


Appending == pc \in {"ap_read", "ap_open", "ap_write"}

NoWorkerWhileAppending ==
    Appending =>
       /\ futures = <<>>
       /\ hist.returned = hist.dispatched
       /\ ap.file_path = psu_output_file =>
             hist.dispatched = Len(gpu_psu_endpoints) + Len(cpu_psu_endpoints)

\* C18: a dataset file is read, opened or written only by the control thread
\* inside append_to_json_file, while no worker task exists and every query
\* the collector dispatched (for power: of both pools) has returned or
\* failed; a step of a run touches one file at most
C18_FilesOnlyBetweenFanOuts ==
    [][/\ NoWorkerWhileAppending'
       /\ (hist'.run = hist.run
             /\ (files' # files \/ hist'.file_ops # hist.file_ops)) =>
            /\ Appending
            /\ futures = <<>>
            /\ hist.returned = hist.dispatched
            /\ Cardinality({c \in Categories : files'[c] # files[c]}) <= 1
            /\ \A c \in Categories : files'[c] # files[c] => c = ap.file_path]_vars

\* the power file is being written after the queries of both pools returned
C18_Witness ==
    /\ pc = "ap_write"
    /\ ap.file_path = psu_output_file
    /\ files[psu_output_file].text # <<>>
    /\ ap.chunks # <<>>
    /\ futures = <<>>
    /\ hist.dispatched >= 2
    /\ hist.returned = hist.dispatched


Pools == {"gpu_pool", "cpu_pool", "fan_pool", "temp_pool"}

\* C19 as stated: an interrupt cancels no dispatched query and is acted upon
\* at the boundary of the scheduler loop only: when the process leaves on an
\* interrupt, the cycle it was in has run its three collectors to the end
C19_ActsAtLoopBoundary ==
    (pc = "exited" /\ outcome = "Interrupted") =>
        /\ ~AnyPending(futures)
        /\ hist.order \in {<<>>, SubSeq(CycleOrder, 1, 6), CycleOrder}

AllReturnedAtExit ==
    pc = "exited" =>
       /\ ~AnyPending(futures)
       /\ hist.interrupted_at \in Pools => hist.returned = hist.dispatched

\* C19: an interrupt during a fan-out cancels none of the dispatched queries:
\* the process exits only when each of them has returned or failed; the
\* control thread, however, acts on the interrupt at once: it leaves the
\* fan-out in the same step, takes no further result, appends nothing and
\* does not go on with the cycle
C19_QueriesFinishControlLeaves ==
    [][/\ AllReturnedAtExit'
       /\ (hist'.interrupted_at # hist.interrupted_at /\ hist.interrupted_at = "none") =>
            /\ pc' = IF pc \in Pools THEN "shutdown" ELSE "exited"
            /\ futures' = futures
       /\ pc = "shutdown" =>
            /\ pc' \in {"shutdown", "exited"}
            /\ Len(futures') = Len(futures)
            /\ \A i \in 1..Len(futures) :
                  \/ futures'[i] = futures[i]
                  \/ futures[i].state = "pending" /\ futures'[i].state = "done"
            /\ hist'.order = hist.order
            /\ hist'.round = hist.round
            /\ hist'.completed = hist.completed
            /\ <<psu_readings', total_power', fan_readings', temp_readings'>> =
                  <<psu_readings, total_power, fan_readings, temp_readings>>]_vars

\* interrupted during the accelerator-tray fan-out with queries still
\* running: they have all finished, their results were never taken, and the
\* process is gone without a power batch
C19_Witness ==
    /\ pc = "exited" /\ outcome = "Interrupted"
    /\ hist.interrupted_at = "gpu_pool"
    /\ hist.in_flight >= 1
    /\ ~AnyPending(futures)
    /\ \E i \in 1..Len(futures) : futures[i].state = "done"
    /\ hist.returned = hist.dispatched
    /\ hist.order = <<"power">>
    /\ hist.cycles = 1 /\ hist.completed[psu_output_file] = 0


\* the name the claim describes: the marker "SPD_" gone, the trailing suffix
\* rewritten, every other character kept
TrailingOnly(x) ==
    LET m == Replace(x, S_SPD_, <<>>) IN
    IF EndsWith(m, S__F) THEN SubSeq(m, 1, Len(m) - 2) \o S_Front
    ELSE IF EndsWith(m, S__R) THEN SubSeq(m, 1, Len(m) - 2) \o S_Rear
    ELSE m

\* C20: parse_fan_name removes the marker "SPD_" and rewrites the trailing
\* suffix only, "_F" to " Front" and "_R" to " Rear"; every other character,
\* an earlier "_F" or "_R" inside the identifier included, stays as it was,
\* and an identifier with neither suffix is passed on unchanged
C20_OnlyTrailingSuffix ==
    (norm.rule = "fan" /\ norm.n >= 1) => norm.out = TrailingOnly(norm.id)


PowerAppended == hist.completed[psu_output_file] > 0
PowerBatch == hist.last_batch[psu_output_file]
PowerSources == hist.last_round[psu_output_file].src
IsGpuEndpoint(e) == e \in Range(gpu_psu_endpoints)

PowerRound == hist.last_round[psu_output_file]

\* C22: every power batch that was appended ends with the record
\* "Total Power in W" and holds no other record of that name; it is never
\* empty, its size is the number of PSU queries that returned plus one, and
\* the total reads 0 when no query returned, be it that all failed or that
\* discovery found no endpoint
C22_OneTotalLast ==
    PowerAppended =>
       /\ PowerBatch # <<>>
       /\ PowerBatch[Len(PowerBatch)].Name = S_TotalPower
       /\ PowerBatch[Len(PowerBatch)].Reading.kind = "num"
       /\ Cardinality({i \in 1..Len(PowerBatch) : PowerBatch[i].Name = S_TotalPower}) = 1
       /\ Len(PowerBatch) = Cardinality(PowerRound.queried) + 1
       /\ PowerRound.queried = {} =>
             PowerBatch = <<Rec(S_TotalPower, PowerBatch[1].Timestamp, Num(0))>>

\* every query of a round with three endpoints failed: the batch on disk is
\* the total record alone, reading 0
C22_Witness ==
    /\ PowerAppended
    /\ pc = "fan_list"
    /\ Len(gpu_psu_endpoints) + Len(cpu_psu_endpoints) = 3
    /\ Cardinality(PowerRound.failed) = 3
    /\ PowerRound.queried = {}
    /\ Content(psu_output_file) = <<Rec(S_TotalPower, 0, Num(0))>>

\* discovery found no endpoint: the batch on disk is the total record alone
C22_WitnessNoEndpoint ==
    /\ PowerAppended
    /\ gpu_psu_endpoints = <<>> /\ cpu_psu_endpoints = <<>>
    /\ Content(psu_output_file) = <<Rec(S_TotalPower, 0, Num(0))>>


\* utils.py lines 67-68: the per-PSU selection of the report
ReportSelects(name) ==
    StartsWith(name, S_GPU_TRAY_PSU) \/ StartsWith(name, S_CPU_TRAY_PSU)

\* C23: for every endpoint discovery selected, the record of an appended
\* power batch has a name that starts with "GPU_TRAY_PSU" (accelerator
\* tray) or "CPU_TRAY_PSU" (compute tray); so every record of the batch but
\* the total is one the per-PSU selection of the report picks up
C23_SelectedNamesCanonical ==
    PowerAppended =>
       \A i \in 1..Len(PowerSources) :
          /\ StartsWith(PowerBatch[i].Name,
                        IF IsGpuEndpoint(PowerSources[i])
                        THEN S_GPU_TRAY_PSU ELSE S_CPU_TRAY_PSU)
          /\ ReportSelects(PowerBatch[i].Name)

====
